---------------------------- MODULE Spec2Model ----------------------------
(***************************************************************************)
(* The calculator engine of generated_project/script.js (class Calculator) *)
(* as a state machine.                                                     *)
(*                                                                         *)
(* Strings are sequences of one-character strings, so that the string      *)
(* operations of the code (includes, startsWith, substring, +=) and the    *)
(* conversions parseFloat, parseInt and Number.prototype.toString are       *)
(* computed on characters.                                                 *)
(*                                                                         *)
(* A JavaScript Number is a record [kind, neg, digs, exp]: kind is "nan",  *)
(* "inf" or "fin"; a finite value is (-1)^neg * digs * 10^exp, digs a      *)
(* sequence of decimal digits without leading or trailing zeros (empty     *)
(* for zero, whose sign is kept).  Integers below 10^21 are rounded to     *)
(* binary64 exactly (ties to even) and printed with the shortest digits    *)
(* that read back as the same double; every other value is kept to         *)
(* Precision significant decimal digits, rounded half-even, which          *)
(* abstracts the 53-bit significand.  null is the record of kind "null".   *)
(*                                                                         *)
(* An operator that needs an intermediate value several times receives it  *)
(* as a parameter of a helper operator, so that it is written once.        *)
(***************************************************************************)
EXTENDS Integers, Sequences, FiniteSets, TLC

(***************************************************************************)
(* Decimal digit sequences (most significant digit first).                 *)
(***************************************************************************)
DigitChars == <<"0", "1", "2", "3", "4", "5", "6", "7", "8", "9">>

IsDigitChar(c) == c \in {"0", "1", "2", "3", "4", "5", "6", "7", "8", "9"}

DigitOfChar(c) == (CHOOSE i \in 1..10 : DigitChars[i] = c) - 1

CharOfDigit(d) == DigitChars[d + 1]

Zeros(n) == [i \in 1..n |-> 0]

Max(a, b) == IF a >= b THEN a ELSE b

Min(a, b) == IF a <= b THEN a ELSE b

MinOf(S) == CHOOSE x \in S : \A y \in S : x <= y

MaxOf(S) == CHOOSE x \in S : \A y \in S : x >= y

\* d from its digit at position i on, and up to it.
From(d, i) == SubSeq(d, i, Len(d))

UpTo(d, i) == SubSeq(d, 1, i)

StripLead(d) ==
    IF d = <<>> \/ d[1] # 0 THEN d
    ELSE IF \A i \in 1..Len(d) : d[i] = 0 THEN <<>>
    ELSE From(d, MinOf({i \in 1..Len(d) : d[i] # 0}))

StripTrail(d) ==
    IF d = <<>> \/ d[Len(d)] # 0 THEN d
    ELSE IF \A i \in 1..Len(d) : d[i] = 0 THEN <<>>
    ELSE UpTo(d, MaxOf({i \in 1..Len(d) : d[i] # 0}))

PadLeft(d, n) == IF Len(d) >= n THEN d ELSE Zeros(n - Len(d)) \o d

PadRight(d, n) == IF Len(d) >= n THEN d ELSE d \o Zeros(n - Len(d))

\* Comparison of two digit sequences of the same length at the first
\* position i where they differ.
CmpAt(a, b, i) == IF a[i] < b[i] THEN -1 ELSE 1

\* Lexicographic comparison of two digit sequences of the same length.
CmpLex(a, b) ==
    IF a = b THEN 0
    ELSE CmpAt(a, b, MinOf({i \in 1..Len(a) : a[i] # b[i]}))

\* Comparison of two natural numbers given without leading zeros.
CmpDigs(a, b) ==
    IF Len(a) < Len(b) THEN -1
    ELSE IF Len(a) > Len(b) THEN 1
    ELSE CmpLex(a, b)

\* Comparison of the fractions 0.a and 0.b.
CmpFrac(a, b) ==
    CmpLex(PadRight(a, Max(Len(a), Len(b))), PadRight(b, Max(Len(a), Len(b))))

\* x + y for two sequences of the same length n: position i receives a carry
\* when some position to its right produces one and every position between
\* passes it on.
AddPadded(x, y, n) ==
    LET carry(i) == \E j \in (i + 1)..n :
                        /\ x[j] + y[j] >= 10
                        /\ \A k \in (i + 1)..(j - 1) : x[k] + y[k] = 9
    IN  [i \in 1..(n + 1) |->
            IF i = 1 THEN (IF carry(0) THEN 1 ELSE 0)
            ELSE (x[i - 1] + y[i - 1] + (IF carry(i - 1) THEN 1 ELSE 0)) % 10]

AddDigs(a, b) ==
    IF a = <<>> THEN b
    ELSE IF b = <<>> THEN a
    ELSE StripLead(AddPadded(PadLeft(a, Len(b)), PadLeft(b, Len(a)),
                             Max(Len(a), Len(b))))

\* x - y for x >= y of the same length n, with the borrows found the same way.
SubPadded(x, y, n) ==
    LET borrow(i) == \E j \in (i + 1)..n :
                         /\ x[j] < y[j]
                         /\ \A k \in (i + 1)..(j - 1) : x[k] = y[k]
    IN  [i \in 1..n |-> (x[i] - y[i] - (IF borrow(i) THEN 1 ELSE 0) + 10) % 10]

\* a - b for a >= b.
SubDigs(a, b) ==
    IF b = <<>> THEN a
    ELSE StripLead(SubPadded(a, PadLeft(b, Len(a)), Len(a)))

\* |a - b|.
Distance(a, b) == IF CmpDigs(a, b) >= 0 THEN SubDigs(a, b) ELSE SubDigs(b, a)

\* a * 10^m.
ShiftLeft(a, m) == IF a = <<>> THEN a ELSE a \o Zeros(m)

\* The multiples 1 * b, ..., 9 * b of b, from b and its multiples by 2, 4, 8.
MultiplesOf(b, b2, b4, b8) ==
    <<b, b2, AddDigs(b2, b), b4, AddDigs(b4, b), AddDigs(b4, b2),
      SubDigs(b8, b), b8, AddDigs(b8, b)>>

Doubled3(b, b2, b4) == MultiplesOf(b, b2, b4, AddDigs(b4, b4))

Doubled2(b, b2) == Doubled3(b, b2, AddDigs(b2, b2))

Multiples(b) == Doubled2(b, AddDigs(b, b))

\* d * a for one digit d, mult being the multiples of a.
MulDigit(mult, d) == IF d = 0 THEN <<>> ELSE mult[d]

\* a * b, mult being the multiples of a, the digits of b taken half by half.
RECURSIVE MulWith(_, _)
MulWith(mult, b) ==
    IF b = <<>> THEN <<>>
    ELSE IF Len(b) = 1 THEN MulDigit(mult, b[1])
    ELSE AddDigs(ShiftLeft(MulWith(mult, UpTo(b, Len(b) \div 2)),
                           Len(b) - Len(b) \div 2),
                 MulWith(mult, From(b, Len(b) \div 2 + 1)))

\* The product by b of the number whose multiples are mult.
MulBy(mult, b) == IF mult[1] = <<>> THEN <<>> ELSE MulWith(mult, b)

MulDigs(a, b) == MulBy(Multiples(a), b)

\* The quotient digit c of a division step and the remainder it leaves.
StepOf(rem, mult, c) ==
    [q |-> <<c>>, rem |-> IF c = 0 THEN rem ELSE SubDigs(rem, mult[c])]

\* One step of a long division by b > 0, mult being the multiples of b: the
\* next quotient digit and the remainder left, for the running remainder
\* rem < 10 * b.
DivStep(rem, mult) ==
    StepOf(rem, mult, Cardinality({k \in 1..9 : CmpDigs(mult[k], rem) <= 0}))

\* The steps of left followed by the steps of right.
Joined(left, right) == [q |-> left.q \o right.q, rem |-> right.rem]

\* Long division of the digits lo..hi of a by b > 0, mult being the multiples
\* of b, entered with the remainder rem: the quotient's digits and the
\* remainder left.
RECURSIVE DivRange(_, _, _, _, _)
RECURSIVE DivRest(_, _, _, _, _)
DivRange(a, mult, lo, hi, rem) ==
    IF lo > hi THEN [q |-> <<>>, rem |-> rem]
    ELSE IF lo = hi THEN DivStep(StripLead(Append(rem, a[lo])), mult)
    ELSE DivRest(a, mult, (lo + hi) \div 2, hi,
                 DivRange(a, mult, lo, (lo + hi) \div 2, rem))

DivRest(a, mult, mid, hi, left) ==
    Joined(left, DivRange(a, mult, mid + 1, hi, left.rem))

\* Quotient and remainder of the natural number a by b > 0.
Stripped(d) == [q |-> StripLead(d.q), rem |-> d.rem]

\* The division of a by the number whose multiples are mult.
DivBy(a, mult) ==
    IF mult[1] = <<>> THEN [q |-> <<>>, rem |-> a]
    ELSE Stripped(DivRange(a, mult, 1, Len(a), <<>>))

DivDigs(a, b) == DivBy(a, Multiples(b))

\* The value of a short digit sequence, and the digits of a natural number.
RECURSIVE IntOfDigs(_)
IntOfDigs(d) ==
    IF d = <<>> THEN 0 ELSE 10 * IntOfDigs(UpTo(d, Len(d) - 1)) + d[Len(d)]

RECURSIVE DigsOfInt(_)
DigsOfInt(n) ==
    IF n = 0 THEN <<>> ELSE Append(DigsOfInt(n \div 10), n % 10)

\* n mod q for a small modulus q, by Horner's rule.
RECURSIVE ModSmall(_, _)
ModSmall(d, q) ==
    IF d = <<>> THEN 0
    ELSE (ModSmall(UpTo(d, Len(d) - 1), q) * 10 + d[Len(d)]) % q

(***************************************************************************)
(* JavaScript Number values.                                               *)
(***************************************************************************)
null == [kind |-> "null", neg |-> FALSE, digs |-> <<>>, exp |-> 0]

NaN == [kind |-> "nan", neg |-> FALSE, digs |-> <<>>, exp |-> 0]

Infinity(neg) == [kind |-> "inf", neg |-> neg, digs |-> <<>>, exp |-> 0]

Finite(neg, digs, exp) == [kind |-> "fin", neg |-> neg, digs |-> digs, exp |-> exp]

Zero(neg) == Finite(neg, <<>>, 0)

IsZero(x) == x.kind = "fin" /\ x.digs = <<>>

\* Significant decimal digits kept for a value that is not an integer below
\* 10^21 (a binary64 value prints with at most 17).
Precision == 17

\* 2^53: every integer up to it is a binary64 value.
Two53 == <<9, 0, 0, 7, 1, 9, 9, 2, 5, 4, 7, 4, 0, 9, 9, 2>>

\* The largest binary64 value is 1.7976931348623157e308; a value of at least
\* 1.79769313486231580793e308 rounds to Infinity.
MaxDoubleDigs == <<1, 7, 9, 7, 6, 9, 3, 1, 3, 4, 8, 6, 2, 3, 1, 5, 7>>

OverflowDigs == <<1, 7, 9, 7, 6, 9, 3, 1, 3, 4, 8, 6, 2, 3, 1, 5, 8, 0, 7, 9, 3>>

\* A value of at most 2.4703282292062327e-324 (half the least binary64 value)
\* rounds to zero.
UnderflowDigs == <<2, 4, 7, 0, 3, 2, 8, 2, 2, 9, 2, 0, 6, 2, 3, 2, 7>>

\* d * 10^exp for d without leading zeros, without trailing zeros either.
Trimmed(d, exp) ==
    IF d = <<>> THEN [digs |-> <<>>, exp |-> 0]
    ELSE [digs |-> StripTrail(d), exp |-> exp + (Len(d) - Len(StripTrail(d)))]

\* digs * 10^exp without leading or trailing zero digits.
CanonDigs(digs, exp) == Trimmed(StripLead(digs), exp)

\* Whether keep, followed by the digits rest that are dropped, rounds up.
RoundsUp(keep, rest) ==
    \/ rest[1] > 5
    \/ /\ rest[1] = 5
       /\ \/ \E i \in 2..Len(rest) : rest[i] # 0
          \/ keep[Len(keep)] % 2 = 1

\* digs * 10^exp rounded half-even to p significant digits.
RoundDigits(digs, exp, p) ==
    IF Len(digs) <= p THEN CanonDigs(digs, exp)
    ELSE CanonDigs(IF RoundsUp(UpTo(digs, p), From(digs, p + 1))
                   THEN AddDigs(UpTo(digs, p), <<1>>)
                   ELSE UpTo(digs, p),
                   exp + Len(digs) - p)

RECURSIVE Pow2(_)
Pow2(j) == IF j = 0 THEN 1 ELSE 2 * Pow2(j - 1)

\* The digits of 2^53, 2^54, ..., 2^70.
PowersOfTwo ==
    <<<<9, 0, 0, 7, 1, 9, 9, 2, 5, 4, 7, 4, 0, 9, 9, 2>>,
       <<1, 8, 0, 1, 4, 3, 9, 8, 5, 0, 9, 4, 8, 1, 9, 8, 4>>,
       <<3, 6, 0, 2, 8, 7, 9, 7, 0, 1, 8, 9, 6, 3, 9, 6, 8>>,
       <<7, 2, 0, 5, 7, 5, 9, 4, 0, 3, 7, 9, 2, 7, 9, 3, 6>>,
       <<1, 4, 4, 1, 1, 5, 1, 8, 8, 0, 7, 5, 8, 5, 5, 8, 7, 2>>,
       <<2, 8, 8, 2, 3, 0, 3, 7, 6, 1, 5, 1, 7, 1, 1, 7, 4, 4>>,
       <<5, 7, 6, 4, 6, 0, 7, 5, 2, 3, 0, 3, 4, 2, 3, 4, 8, 8>>,
       <<1, 1, 5, 2, 9, 2, 1, 5, 0, 4, 6, 0, 6, 8, 4, 6, 9, 7, 6>>,
       <<2, 3, 0, 5, 8, 4, 3, 0, 0, 9, 2, 1, 3, 6, 9, 3, 9, 5, 2>>,
       <<4, 6, 1, 1, 6, 8, 6, 0, 1, 8, 4, 2, 7, 3, 8, 7, 9, 0, 4>>,
       <<9, 2, 2, 3, 3, 7, 2, 0, 3, 6, 8, 5, 4, 7, 7, 5, 8, 0, 8>>,
       <<1, 8, 4, 4, 6, 7, 4, 4, 0, 7, 3, 7, 0, 9, 5, 5, 1, 6, 1, 6>>,
       <<3, 6, 8, 9, 3, 4, 8, 8, 1, 4, 7, 4, 1, 9, 1, 0, 3, 2, 3, 2>>,
       <<7, 3, 7, 8, 6, 9, 7, 6, 2, 9, 4, 8, 3, 8, 2, 0, 6, 4, 6, 4>>,
       <<1, 4, 7, 5, 7, 3, 9, 5, 2, 5, 8, 9, 6, 7, 6, 4, 1, 2, 9, 2, 8>>,
       <<2, 9, 5, 1, 4, 7, 9, 0, 5, 1, 7, 9, 3, 5, 2, 8, 2, 5, 8, 5, 6>>,
       <<5, 9, 0, 2, 9, 5, 8, 1, 0, 3, 5, 8, 7, 0, 5, 6, 5, 1, 7, 1, 2>>,
       <<1, 1, 8, 0, 5, 9, 1, 6, 2, 0, 7, 1, 7, 4, 1, 1, 3, 0, 3, 4, 2, 4>>>>

\* The binade of an integer 2^53 <= n < 2^70: the j with
\* 2^(52+j) <= n < 2^(53+j), where binary64 values are the multiples of 2^j.
Binade(n) ==
    CHOOSE j \in 1..17 :
        CmpDigs(n, PowersOfTwo[j]) >= 0 /\ CmpDigs(n, PowersOfTwo[j + 1]) < 0

\* Of the multiples down and down + q of q around an integer that lies r
\* above down, the nearer one, the one with the even significand on a tie.
NearestOf(down, q, r) ==
    IF 2 * r < q THEN down
    ELSE IF 2 * r = q /\ ModSmall(down, 2 * q) = 0 THEN down
    ELSE AddDigs(down, DigsOfInt(q))

\* The multiple of q nearest to n, which lies r above one.
NearestMultiple(n, q, r) == NearestOf(SubDigs(n, DigsOfInt(r)), q, r)

RoundToMultiple(n, q) == NearestMultiple(n, q, ModSmall(n, q))

\* The binary64 value nearest to the integer n <= 10^21 (round to nearest,
\* ties to the even significand), as an integer.
IntToDouble(n) ==
    IF CmpDigs(n, Two53) <= 0 THEN n ELSE RoundToMultiple(n, Pow2(Binade(n)))

\* Whether an error of err is within room / 4, or on it when even allows.
WithinRoom(err, room, even) ==
    /\ Len(err) <= 7
    /\ \/ 4 * IntOfDigs(err) < room
       \/ 4 * IntOfDigs(err) = room /\ even

\* Whether the decimal c reads back as the binary64 integer n of the binade
\* j: c lies within half a gap of n (a quarter of the gap below a power of
\* two), the end points included when n's significand is even.
ReadsBackIn(n, c, j) ==
    WithinRoom(Distance(c, n),
               IF CmpDigs(c, n) >= 0 \/ n # PowersOfTwo[j]
               THEN 2 * Pow2(j) ELSE Pow2(j),
               ModSmall(n, 2 * Pow2(j)) = 0)

ReadsBack(n, c) == ReadsBackIn(n, c, Binade(n))

\* n cut to its first k digits, and the next decimal of k digits above it.
CutDown(n, k) == UpTo(n, k) \o Zeros(Len(n) - k)

CutUp(n, k) == AddDigs(UpTo(n, k), <<1>>) \o Zeros(Len(n) - k)

\* Of the decimals dn <= n <= up, of which okDn and okUp tell whether they
\* read back as n, the nearer one that does (the even one on a tie).
NearerOf(n, dn, up, okDn, okUp, evenDn) ==
    IF okDn /\ okUp
    THEN (IF \/ CmpDigs(SubDigs(n, dn), SubDigs(up, n)) < 0
             \/ CmpDigs(SubDigs(n, dn), SubDigs(up, n)) = 0 /\ evenDn
          THEN dn ELSE up)
    ELSE IF okDn THEN dn
    ELSE up

ShortestWith(n, k) ==
    IF k = Len(n) THEN n
    ELSE NearerOf(n, CutDown(n, k), CutUp(n, k),
                  ReadsBack(n, CutDown(n, k)), ReadsBack(n, CutUp(n, k)),
                  n[k] % 2 = 0)

\* The fewest significant digits that read back as n (Number::toString's
\* choice of digits) for a binary64 integer 2^53 < n < 2^70: of the two
\* decimals of k digits around n, the nearer one that reads back.
ShortestInt(n) ==
    IF CmpDigs(n, Two53) <= 0 THEN n
    ELSE ShortestWith(n, MinOf({k \in 1..Len(n) :
                                    \/ k = Len(n)
                                    \/ ReadsBack(n, CutDown(n, k))
                                    \/ ReadsBack(n, CutUp(n, k))}))

\* The Number of sign neg and the canonical digits and exponent m.
FiniteOf(neg, m) == Finite(neg, m.digs, m.exp)

\* The binary64 value of (-1)^neg * c, which is no integer below 10^21 and
\* rounds to r at Precision digits.
RoundDecimal(neg, c, r) ==
    LET x == Len(r.digs) + r.exp - 1
    IN  IF x > 308 \/ (x = 308 /\ CmpFrac(c.digs, OverflowDigs) >= 0)
        THEN Infinity(neg)
        ELSE IF x < -324 \/ (x = -324 /\ CmpFrac(c.digs, UnderflowDigs) <= 0)
        THEN Zero(neg)
        ELSE IF x = 308 /\ CmpFrac(r.digs, MaxDoubleDigs) > 0
        THEN Finite(neg, MaxDoubleDigs, 292)
        ELSE FiniteOf(neg, r)

\* The binary64 value of (-1)^neg * c for canonical digits and exponent c.
RoundCanon(neg, c) ==
    IF c.digs = <<>> THEN Zero(neg)
    ELSE IF c.exp >= 0 /\ Len(c.digs) + c.exp <= 21
    THEN FiniteOf(neg, CanonDigs(IntToDouble(c.digs \o Zeros(c.exp)), 0))
    ELSE RoundDecimal(neg, c, RoundDigits(c.digs, c.exp, Precision))

\* The binary64 value of the real number (-1)^neg * digs * 10^exp.
RoundToDouble(neg, digs, exp) == RoundCanon(neg, CanonDigs(digs, exp))

(***************************************************************************)
(* Number.prototype.toString (radix 10).                                   *)
(***************************************************************************)
CharsOfDigs(d) == [i \in 1..Len(d) |-> CharOfDigit(d[i])]

CharsOfNat(n) == IF n = 0 THEN <<"0">> ELSE CharsOfDigs(DigsOfInt(n))

\* The digits Number::toString prints for a finite non-zero value: the
\* shortest ones that read back as the same binary64 value.
PrintedDigits(x) ==
    IF x.exp >= 0 /\ Len(x.digs) + x.exp <= 21
    THEN CanonDigs(ShortestInt(x.digs \o Zeros(x.exp)), 0)
    ELSE [digs |-> x.digs, exp |-> x.exp]

\* The exponent part "e+x" or "e-x".
ExponentPart(e) ==
    <<"e", IF e < 0 THEN "-" ELSE "+">> \o CharsOfNat(IF e < 0 THEN -e ELSE e)

\* Number::toString for the digit characters c (k of them) and n, so that the
\* value is 0.c * 10^n: plain digits up to 10^21, a leading "0." down to
\* 10^-6, the exponent form anywhere else.
FormatChars(c, k, n) ==
    IF k <= n /\ n <= 21 THEN c \o [i \in 1..(n - k) |-> "0"]
    ELSE IF 0 < n /\ n <= 21 THEN UpTo(c, n) \o <<".">> \o From(c, n + 1)
    ELSE IF -6 < n /\ n <= 0 THEN <<"0", ".">> \o [i \in 1..(-n) |-> "0"] \o c
    ELSE IF k = 1 THEN c \o ExponentPart(n - 1)
    ELSE <<c[1], ".">> \o From(c, 2) \o ExponentPart(n - 1)

FormatDigits(p) == FormatChars(CharsOfDigs(p.digs), Len(p.digs), Len(p.digs) + p.exp)

toString(x) ==
    IF x.kind = "nan" THEN <<"N", "a", "N">>
    ELSE IF x.kind = "inf"
    THEN (IF x.neg THEN <<"-">> ELSE <<>>) \o <<"I", "n", "f", "i", "n", "i", "t", "y">>
    ELSE IF x.digs = <<>> THEN <<"0">>
    ELSE (IF x.neg THEN <<"-">> ELSE <<>>) \o FormatDigits(PrintedDigits(x))

(***************************************************************************)
(* parseFloat and parseInt(_, 10): the value of the longest prefix that is *)
(* a number, NaN when there is none.                                       *)
(***************************************************************************)
\* The first position from i on that holds no digit.
ScanDigits(s, i) ==
    IF \A j \in i..Len(s) : IsDigitChar(s[j]) THEN Max(i, Len(s) + 1)
    ELSE MinOf({j \in i..Len(s) : ~IsDigitChar(s[j])})

\* The digits s[i], ..., s[j - 1].
DigsOfChars(s, i, j) == [k \in 1..(j - i) |-> DigitOfChar(s[i + k - 1])]

StartsWithAt(s, i, w) ==
    Len(s) >= i + Len(w) - 1 /\ SubSeq(s, i, i + Len(w) - 1) = w

\* Whether s starts with a sign, and whether with "-".
Signed(s) == s # <<>> /\ s[1] \in {"-", "+"}

Minus(s) == s # <<>> /\ s[1] = "-"

\* The value of an exponent's digits; anything beyond five digits is out of
\* binary64's range either way.
ExponentOfDigs(d) ==
    IF Len(StripLead(d)) > 5 THEN 99999 ELSE IntOfDigs(StripLead(d))

\* The exponent whose digits start at position i of s, negative if neg.
ExponentDigits(s, i, neg) ==
    IF neg THEN -ExponentOfDigs(DigsOfChars(s, i, ScanDigits(s, i)))
    ELSE ExponentOfDigs(DigsOfChars(s, i, ScanDigits(s, i)))

\* The exponent part of s at position i, 0 where there is none.
ExponentAt(s, i) ==
    IF ~(i <= Len(s) /\ s[i] \in {"e", "E"}) THEN 0
    ELSE IF i + 1 <= Len(s) /\ s[i + 1] \in {"-", "+"}
    THEN ExponentDigits(s, i + 2, s[i + 1] = "-")
    ELSE ExponentDigits(s, i + 1, FALSE)

\* The value of the integer digits intD, the fraction digits fracD and the
\* exponent part of s at position i.
ParseExponent(s, neg, intD, fracD, i) ==
    IF intD = <<>> /\ fracD = <<>> THEN NaN
    ELSE RoundToDouble(neg, intD \o fracD, ExponentAt(s, i) - Len(fracD))

\* The value of s whose integer digits are at i0..i1-1 and whose fraction
\* digits, if any, at i1+1..i2-1.
ParseMantissa(s, neg, i0, i1, i2) ==
    ParseExponent(s, neg, DigsOfChars(s, i0, i1),
                  IF i2 > i1 THEN DigsOfChars(s, i1 + 1, i2) ELSE <<>>, i2)

ParseFraction(s, neg, i0, i1) ==
    ParseMantissa(s, neg, i0, i1,
                  IF i1 <= Len(s) /\ s[i1] = "." THEN ScanDigits(s, i1 + 1) ELSE i1)

ParseUnsigned(s, neg, i0) ==
    IF StartsWithAt(s, i0, <<"I", "n", "f", "i", "n", "i", "t", "y">>)
    THEN Infinity(neg)
    ELSE ParseFraction(s, neg, i0, ScanDigits(s, i0))

parseFloat(s) == ParseUnsigned(s, Minus(s), IF Signed(s) THEN 2 ELSE 1)

\* The integer of s whose digits are at i0..i1-1.
ParseInteger(s, neg, i0, i1) ==
    IF i1 = i0 THEN NaN ELSE RoundToDouble(neg, DigsOfChars(s, i0, i1), 0)

ParseDigits(s, neg, i0) == ParseInteger(s, neg, i0, ScanDigits(s, i0))

parseInt(s) == ParseDigits(s, Minus(s), IF Signed(s) THEN 2 ELSE 1)

(***************************************************************************)
(* The arithmetic of the operators +, -, * and /.                          *)
(***************************************************************************)
Negate(x) == IF x.kind = "nan" THEN x ELSE [x EXCEPT !.neg = ~x.neg]

\* The decimal exponent of a finite non-zero value's leading digit.
Magnitude(x) == Len(x.digs) + x.exp - 1

\* (-1)^xneg * a + (-1)^yneg * b, both in units of 10^e.
AddAligned(xneg, a, yneg, b, e) ==
    IF xneg # yneg /\ a = b THEN Zero(FALSE)
    ELSE RoundToDouble(IF xneg = yneg \/ CmpDigs(a, b) >= 0 THEN xneg ELSE yneg,
                       IF xneg = yneg THEN AddDigs(a, b) ELSE Distance(a, b),
                       e)

AddFinite(x, y) ==
    IF IsZero(x) /\ IsZero(y) THEN Zero(x.neg /\ y.neg)
    ELSE IF IsZero(x) THEN y
    ELSE IF IsZero(y) THEN x
    ELSE IF Magnitude(x) - Magnitude(y) > 2 * Precision THEN x
    ELSE IF Magnitude(y) - Magnitude(x) > 2 * Precision THEN y
    ELSE AddAligned(x.neg, x.digs \o Zeros(x.exp - Min(x.exp, y.exp)),
                    y.neg, y.digs \o Zeros(y.exp - Min(x.exp, y.exp)),
                    Min(x.exp, y.exp))

Add(x, y) ==
    IF x.kind = "nan" \/ y.kind = "nan" THEN NaN
    ELSE IF x.kind = "inf" /\ y.kind = "inf" THEN (IF x.neg = y.neg THEN x ELSE NaN)
    ELSE IF x.kind = "inf" THEN x
    ELSE IF y.kind = "inf" THEN y
    ELSE AddFinite(x, y)

Sub(x, y) == Add(x, Negate(y))

Mul(x, y) ==
    IF x.kind = "nan" \/ y.kind = "nan" THEN NaN
    ELSE IF x.kind = "inf" \/ y.kind = "inf"
    THEN (IF IsZero(x) \/ IsZero(y) THEN NaN ELSE Infinity(x.neg # y.neg))
    ELSE IF IsZero(x) \/ IsZero(y) THEN Zero(x.neg # y.neg)
    ELSE RoundToDouble(x.neg # y.neg, MulDigs(x.digs, y.digs), x.exp + y.exp)

\* The quotient d.q * 10^e, with a last digit that tells whether a remainder
\* was left, rounded.
RoundQuotient(neg, d, e) ==
    IF d.rem = <<>> THEN RoundToDouble(neg, d.q, e)
    ELSE RoundToDouble(neg, Append(d.q, 1), e - 1)

\* x / y for finite non-zero x and y, the dividend scaled by 10^s.
DivScaled(x, y, s) ==
    RoundQuotient(x.neg # y.neg, DivDigs(x.digs \o Zeros(s), y.digs),
                  x.exp - y.exp - s)

Div(x, y) ==
    IF x.kind = "nan" \/ y.kind = "nan" THEN NaN
    ELSE IF x.kind = "inf"
    THEN (IF y.kind = "inf" THEN NaN ELSE Infinity(x.neg # y.neg))
    ELSE IF y.kind = "inf" THEN Zero(x.neg # y.neg)
    ELSE IF IsZero(y) THEN (IF IsZero(x) THEN NaN ELSE Infinity(x.neg # y.neg))
    ELSE IF IsZero(x) THEN Zero(x.neg # y.neg)
    ELSE DivScaled(x, y, Max(0, Precision + 3 + Len(y.digs) - Len(x.digs)))

(***************************************************************************)
(* The state of a Calculator.  operator holds "+", "-", "*", "/" or, for   *)
(* the code's null, the string "null"; previousValue holds a Number or     *)
(* null; display is displayElement.textContent.                            *)
(*                                                                         *)
(* History variables, which no action reads: last is the name and the      *)
(* argument of the latest call, pre the state it was made in; computed      *)
(* counts the results computed since the engine was last in its initial    *)
(* state; typed and chain record the keys of the two scenario              *)
(* specifications SpecDigits and SpecChain.                                *)
(***************************************************************************)
VARIABLES currentInput, previousValue, operator, display,
          last, pre, computed, typed, chain

engine == <<currentInput, previousValue, operator, display>>

vars == <<currentInput, previousValue, operator, display,
          last, pre, computed, typed, chain>>

\* The digit keys and the operator keys.
Digits == {"0", "5"}

Operators == {"+", "-", "*", "/"}

\* String.prototype.includes for one character.
includes(s, c) == \E i \in 1..Len(s) : s[i] = c

\* What updateDisplay writes to the display for the input ci.
updateDisplay(ci) ==
    IF ~includes(ci, ".") THEN toString(parseInt(ci)) ELSE ci

\* The constant 100 of calculatePercentage.
Hundred == Finite(FALSE, <<1>>, 2)

\* The switch without the zero test of the division.
ComputeUnguarded(op, previous, current) ==
    CASE op = "+" -> Add(previous, current)
      [] op = "-" -> Sub(previous, current)
      [] op = "*" -> Mul(previous, current)
      [] op = "/" -> Div(previous, current)
      [] OTHER    -> current

\* The switch of calculateResult: the result of previous op current.
Compute(op, previous, current) ==
    CASE op = "+" -> Add(previous, current)
      [] op = "-" -> Sub(previous, current)
      [] op = "*" -> Mul(previous, current)
      [] op = "/" -> IF IsZero(current) THEN Zero(FALSE) ELSE Div(previous, current)
      [] OTHER    -> current

Init ==
    /\ currentInput = <<"0">>
    /\ previousValue = null
    /\ operator = "null"
    /\ display = updateDisplay(<<"0">>)
    /\ last = [act |-> "constructor", arg |-> ""]
    /\ pre = [currentInput |-> <<"0">>, previousValue |-> null,
              operator |-> "null", display |-> <<"0">>, act |-> ""]
    /\ computed = 0
    /\ typed = <<>>
    /\ chain = <<>>

\* An inputDigit that replaces any currentInput of value zero.
inputDigitNumericZero(digit) ==
    /\ currentInput' = IF IsZero(parseFloat(currentInput)) THEN <<digit>>
                       ELSE Append(currentInput, digit)
    /\ display' = updateDisplay(currentInput')
    /\ UNCHANGED <<previousValue, operator>>

inputDigit(digit) ==
    /\ currentInput' = IF currentInput = <<"0">> THEN <<digit>>
                       ELSE Append(currentInput, digit)
    /\ display' = updateDisplay(currentInput')
    /\ UNCHANGED <<previousValue, operator>>

\* An inputDecimal that does not look for a decimal point.
inputDecimalAlways ==
    /\ currentInput' = Append(currentInput, ".")
    /\ display' = updateDisplay(currentInput')
    /\ UNCHANGED <<previousValue, operator>>

inputDecimal ==
    IF ~includes(currentInput, ".")
    THEN /\ currentInput' = Append(currentInput, ".")
         /\ display' = updateDisplay(currentInput')
         /\ UNCHANGED <<previousValue, operator>>
    ELSE UNCHANGED engine

\* A toggleSign that negates the number and writes its string.
toggleSignNumeric ==
    /\ currentInput' = toString(Negate(parseFloat(currentInput)))
    /\ display' = updateDisplay(currentInput')
    /\ UNCHANGED <<previousValue, operator>>

\* A toggleSign that negates the stored operand while no operand is entered.
toggleSignStored ==
    IF currentInput = <<"0">> /\ previousValue # null
    THEN /\ previousValue' = Negate(previousValue)
         /\ display' = updateDisplay(currentInput)
         /\ UNCHANGED <<currentInput, operator>>
    ELSE /\ currentInput' = IF currentInput[1] = "-" THEN Tail(currentInput)
                            ELSE <<"-">> \o currentInput
         /\ display' = updateDisplay(currentInput')
         /\ UNCHANGED <<previousValue, operator>>

toggleSign ==
    /\ currentInput' = IF currentInput[1] = "-" THEN Tail(currentInput)
                       ELSE IF currentInput # <<"0">> THEN <<"-">> \o currentInput
                       ELSE currentInput
    /\ display' = updateDisplay(currentInput')
    /\ UNCHANGED <<previousValue, operator>>

\* A clearEntry that clears the pending operation too.
clearEntryClearsAll ==
    /\ currentInput' = <<"0">>
    /\ previousValue' = null
    /\ operator' = "null"
    /\ display' = updateDisplay(currentInput')

\* A clearEntry that deletes the last character.
clearEntryBackspace ==
    /\ currentInput' = SubSeq(currentInput, 1, Len(currentInput) - 1)
    /\ display' = updateDisplay(currentInput')
    /\ UNCHANGED <<previousValue, operator>>

clearEntry ==
    /\ currentInput' = <<"0">>
    /\ display' = updateDisplay(currentInput')
    /\ UNCHANGED <<previousValue, operator>>

\* An allClear that resets the entry only.
allClearKeepsPending ==
    /\ currentInput' = <<"0">>
    /\ display' = updateDisplay(currentInput')
    /\ UNCHANGED <<previousValue, operator>>

allClear ==
    /\ currentInput' = <<"0">>
    /\ previousValue' = null
    /\ operator' = "null"
    /\ display' = updateDisplay(currentInput')

\* Whether calculateResult has an operation to perform.
pending == ~(operator = "null" \/ previousValue = null)

\* The string calculateResult writes to currentInput.
result == toString(Compute(operator, previousValue, parseFloat(currentInput)))

\* A calculateResult that leaves the operator in place.
calculateResultKeepsOperator ==
    IF ~pending THEN UNCHANGED engine
    ELSE /\ currentInput' = result
         /\ previousValue' = null
         /\ display' = updateDisplay(currentInput')
         /\ UNCHANGED operator

\* A calculateResult without the early return.
calculateResultAlways ==
    /\ currentInput' = result
    /\ previousValue' = null
    /\ operator' = "null"
    /\ display' = updateDisplay(currentInput')

calculateResult ==
    IF ~pending THEN UNCHANGED engine
    ELSE /\ currentInput' = result
         /\ previousValue' = null
         /\ operator' = "null"
         /\ display' = updateDisplay(currentInput')

\* A setOperator that only replaces a pending operator.
setOperatorReplaces(op) ==
    /\ operator' = op
    /\ previousValue' = IF pending THEN previousValue ELSE parseFloat(currentInput)
    /\ currentInput' = <<"0">>
    /\ display' = updateDisplay(currentInput')

\* A setOperator that does not resolve the pending operation.
setOperatorOverwrites(op) ==
    /\ operator' = op
    /\ previousValue' = parseFloat(currentInput)
    /\ currentInput' = <<"0">>
    /\ display' = updateDisplay(currentInput')

setOperator(op) ==
    /\ operator' = op
    /\ previousValue' = parseFloat(IF pending THEN result ELSE currentInput)
    /\ currentInput' = <<"0">>
    /\ display' = updateDisplay(currentInput')

\* A calculatePercentage that drops the pending operation.
calculatePercentageResolves ==
    /\ currentInput' = toString(Div(parseFloat(currentInput), Hundred))
    /\ previousValue' = null
    /\ operator' = "null"
    /\ display' = updateDisplay(currentInput')

calculatePercentage ==
    /\ currentInput' = toString(Div(parseFloat(currentInput), Hundred))
    /\ display' = updateDisplay(currentInput')
    /\ UNCHANGED <<previousValue, operator>>

(***************************************************************************)
(* The specification: any key in any order.  Typing stops at MaxLen        *)
(* characters; at most MaxComputed results are computed before an          *)
(* allClear, and an operator key is pressed only while the operation it    *)
(* leaves pending may still be resolved.                                   *)
(***************************************************************************)
MaxLen == 2

MaxComputed == 2

\* The history of a call named act with the argument arg: the call, the
\* state it was made in and the call made before it.
Called(act, arg) ==
    /\ last' = [act |-> act, arg |-> arg]
    /\ pre' = [currentInput |-> currentInput, previousValue |-> previousValue,
               operator |-> operator, display |-> display, act |-> last.act]

InputDigit ==
    \E d \in Digits :
        /\ Len(currentInput) < MaxLen
        /\ inputDigit(d)
        /\ Called("inputDigit", d)
        /\ UNCHANGED <<computed, typed, chain>>

InputDecimal ==
    /\ Len(currentInput) < MaxLen \/ includes(currentInput, ".")
    /\ inputDecimal
    /\ Called("inputDecimal", "")
    /\ UNCHANGED <<computed, typed, chain>>

ToggleSign ==
    /\ toggleSign
    /\ Called("toggleSign", "")
    /\ UNCHANGED <<computed, typed, chain>>

ClearEntry ==
    /\ clearEntry
    /\ Called("clearEntry", "")
    /\ UNCHANGED <<computed, typed, chain>>

AllClear ==
    /\ allClear
    /\ Called("allClear", "")
    /\ computed' = 0
    /\ UNCHANGED <<typed, chain>>

SetOperator ==
    \E op \in Operators :
        /\ computed + (IF pending THEN 1 ELSE 0) < MaxComputed
        /\ setOperator(op)
        /\ Called("setOperator", op)
        /\ computed' = IF pending THEN computed + 1 ELSE computed
        /\ UNCHANGED <<typed, chain>>

CalculateResult ==
    /\ pending => computed < MaxComputed
    /\ calculateResult
    /\ Called("calculateResult", "")
    /\ computed' = IF pending THEN computed + 1 ELSE computed
    /\ UNCHANGED <<typed, chain>>

CalculatePercentage ==
    /\ computed < MaxComputed
    /\ calculatePercentage
    /\ Called("calculatePercentage", "")
    /\ computed' = computed + 1
    /\ UNCHANGED <<typed, chain>>

Next ==
    \/ InputDigit
    \/ InputDecimal
    \/ ToggleSign
    \/ ClearEntry
    \/ AllClear
    \/ SetOperator
    \/ CalculateResult
    \/ CalculatePercentage

Spec == Init /\ [][Next]_vars

(***************************************************************************)
(* Repeated percentages: an operand is typed and the percent key pressed   *)
(* up to MaxPercent times.                                                 *)
(***************************************************************************)
MaxPercent == 4

PercentKey ==
    /\ computed < MaxPercent
    /\ calculatePercentage
    /\ Called("calculatePercentage", "")
    /\ computed' = computed + 1
    /\ UNCHANGED <<typed, chain>>

NextPercent ==
    \/ InputDigit
    \/ InputDecimal
    \/ ToggleSign
    \/ PercentKey

SpecPercent == Init /\ [][NextPercent]_vars

(***************************************************************************)
(* Digit entry: up to MaxTyped digit keys pressed on a new engine, typed   *)
(* being the keys pressed so far.                                          *)
(***************************************************************************)
MaxTyped == 16

LongDigits == {"0", "9"}

DigitKey ==
    \E d \in LongDigits :
        /\ Len(typed) < MaxTyped
        /\ inputDigit(d)
        /\ Called("inputDigit", d)
        /\ typed' = Append(typed, d)
        /\ UNCHANGED <<computed, chain>>

NextDigits == DigitKey

SpecDigits == Init /\ [][NextDigits]_vars

(***************************************************************************)
(* Chaining: an operand is entered, an operator key pressed, a second      *)
(* operand entered, a second operator key pressed, a third operand entered *)
(* and the equals key pressed; an operand is typed with the digit keys,    *)
(* the decimal point and the sign key.  chain records, at each of the      *)
(* three keys, the operand that was in currentInput and the key.           *)
(***************************************************************************)
EnterDigit ==
    \E d \in Digits :
        /\ Len(chain) < 3
        /\ Len(currentInput) < MaxLen
        /\ inputDigit(d)
        /\ UNCHANGED <<last, pre, computed, typed, chain>>

EnterDecimal ==
    /\ Len(chain) < 3
    /\ Len(currentInput) < MaxLen
    /\ inputDecimal
    /\ UNCHANGED <<last, pre, computed, typed, chain>>

EnterSign ==
    /\ Len(chain) < 3
    /\ toggleSign
    /\ UNCHANGED <<last, pre, computed, typed, chain>>

OperatorKey ==
    \E op \in Operators :
        /\ Len(chain) < 2
        /\ setOperator(op)
        /\ chain' = Append(chain, [operand |-> currentInput, key |-> op])
        /\ UNCHANGED <<last, pre, computed, typed>>

EqualsKey ==
    /\ Len(chain) = 2
    /\ calculateResult
    /\ chain' = Append(chain, [operand |-> currentInput, key |-> "="])
    /\ UNCHANGED <<last, pre, computed, typed>>

NextChain ==
    \/ EnterDigit
    \/ EnterDecimal
    \/ EnterSign
    \/ OperatorKey
    \/ EqualsKey

SpecChain == Init /\ [][NextChain]_vars

(***************************************************************************)
(* Clearing an operand: an operand is entered, an operator key or the      *)
(* clear-entry key pressed, an operand entered, the clear-entry key        *)
(* pressed, an operand entered and the equals key pressed.  chain records  *)
(* the three keys as above, the clear-entry key as "C".                    *)
(***************************************************************************)
PendingOperator ==
    \E op \in Operators :
        /\ chain = <<>>
        /\ setOperator(op)
        /\ Called("setOperator", op)
        /\ chain' = Append(chain, [operand |-> currentInput, key |-> op])
        /\ UNCHANGED <<computed, typed>>

ClearOperand ==
    /\ Len(chain) < 2
    /\ clearEntry
    /\ Called("clearEntry", "")
    /\ chain' = Append(chain, [operand |-> currentInput, key |-> "C"])
    /\ UNCHANGED <<computed, typed>>

EqualsAfterClear ==
    /\ Len(chain) = 2
    /\ calculateResult
    /\ Called("calculateResult", "")
    /\ chain' = Append(chain, [operand |-> currentInput, key |-> "="])
    /\ UNCHANGED <<computed, typed>>

NextClear ==
    \/ InputDigit
    \/ InputDecimal
    \/ PendingOperator
    \/ ClearOperand
    \/ EqualsAfterClear

SpecClear == Init /\ [][NextClear]_vars

(***************************************************************************)
(* Long operands: the digit 5, then up to MaxZeros zeros, with a decimal   *)
(* point anywhere among them.                                              *)
(***************************************************************************)
MaxZeros == 21

FiveKey ==
    /\ currentInput = <<"0">>
    /\ inputDigit("5")
    /\ Called("inputDigit", "5")
    /\ UNCHANGED <<computed, typed, chain>>

ZeroKey ==
    /\ Len(currentInput) <= MaxZeros
    /\ inputDigit("0")
    /\ Called("inputDigit", "0")
    /\ UNCHANGED <<computed, typed, chain>>

PointKey ==
    /\ Len(currentInput) <= MaxZeros
    /\ inputDecimal
    /\ Called("inputDecimal", "")
    /\ UNCHANGED <<computed, typed, chain>>

NextFormat ==
    \/ FiveKey
    \/ ZeroKey
    \/ PointKey

SpecFormat == Init /\ [][NextFormat]_vars

(***************************************************************************)
(* One operation on long operands: an operand is typed, an operator key    *)
(* pressed, a second operand typed and the equals key pressed.             *)
(***************************************************************************)
OperatorOnce ==
    \E op \in Operators :
        /\ ~pending
        /\ computed = 0
        /\ setOperator(op)
        /\ Called("setOperator", op)
        /\ UNCHANGED <<computed, typed, chain>>

EqualsOnce ==
    /\ pending
    /\ calculateResult
    /\ Called("calculateResult", "")
    /\ computed' = computed + 1
    /\ UNCHANGED <<typed, chain>>

NextOnce ==
    \/ FiveKey
    \/ ZeroKey
    \/ OperatorOnce
    \/ EqualsOnce

SpecOnce == Init /\ [][NextOnce]_vars

(***************************************************************************)
(* Digits after a result: operands, operators, equals and percent as in    *)
(* Spec, and a digit key pressed directly after a result of equals or      *)
(* percent or after a decimal point, whatever the length of currentInput.  *)
(***************************************************************************)
\* The last call wrote a result or a decimal point to currentInput.
AfterResult ==
    \/ last.act = "calculateResult" /\ pre.operator # "null"
    \/ last.act = "calculatePercentage"
    \/ last.act = "inputDecimal" /\ currentInput # pre.currentInput

AppendDigit ==
    \E d \in Digits :
        /\ AfterResult
        /\ Len(currentInput) >= MaxLen
        /\ inputDigit(d)
        /\ Called("inputDigit", d)
        /\ UNCHANGED <<computed, typed, chain>>

NextAppend ==
    \/ InputDigit
    \/ InputDecimal
    \/ SetOperator
    \/ CalculateResult
    \/ CalculatePercentage
    \/ AppendDigit

SpecAppend == Init /\ [][NextAppend]_vars

(***************************************************************************)
(* Properties.  PrePending says that an operation was pending before the   *)
(* last call, SameAsBefore that the last call changed nothing.             *)
(***************************************************************************)
PrePending == ~(pre.operator = "null" \/ pre.previousValue = null)

SameAsBefore ==
    /\ currentInput = pre.currentInput
    /\ previousValue = pre.previousValue
    /\ operator = pre.operator
    /\ display = pre.display

\* The number of decimal points in s.
Points(s) == Cardinality({i \in 1..Len(s) : s[i] = "."})

\* u is \d+(\.\d*)?
UnsignedGrammar(u) ==
    /\ u # <<>>
    /\ IsDigitChar(u[1])
    /\ \A i \in 1..Len(u) : IsDigitChar(u[i]) \/ u[i] = "."
    /\ Points(u) <= 1

\* s is -?\d+(\.\d*)?
Grammar(s) ==
    /\ s # <<>>
    /\ UnsignedGrammar(IF s[1] = "-" THEN Tail(s) ELSE s)

\* C1: in every reachable state previousValue and operator are both null or
\* both present.
PendingTogether == (previousValue = null) <=> (operator = "null")

PendingTogetherWitness ==
    /\ last.act = "calculateResult"
    /\ PrePending
    /\ previousValue = null
    /\ operator = "null"

\* The value of the operand recorded at the k-th key of the chain.
Operand(k) == parseFloat(chain[k].operand)

\* C2: after a, setOperator(op1), b, setOperator(op2), c, calculateResult,
\* currentInput is the string of (a op1 b) op2 c evaluated left to right,
\* division by zero giving zero.
ChainLeftToRight ==
    Len(chain) = 3 =>
        currentInput = toString(Compute(chain[2].key,
                                        Compute(chain[1].key, Operand(1), Operand(2)),
                                        Operand(3)))

ChainLeftToRightWitness ==
    /\ Len(chain) = 3
    /\ chain[1] = [operand |-> <<"5">>, key |-> "+"]
    /\ chain[2] = [operand |-> <<"5">>, key |-> "*"]
    /\ chain[3] = [operand |-> <<"5">>, key |-> "="]
    /\ currentInput = <<"5", "0">>

\* Whether the last call resolved a division by zero.
DividedByZero ==
    /\ last.act \in {"calculateResult", "setOperator"}
    /\ PrePending
    /\ pre.operator = "/"
    /\ IsZero(parseFloat(pre.currentInput))

\* C3: resolving a pending division whose right operand is zero, by
\* calculateResult or by a chained setOperator, yields exactly 0 whatever the
\* left operand is.
DivisionByZeroIsZero ==
    DividedByZero =>
        IF last.act = "calculateResult"
        THEN currentInput = <<"0">> /\ display = <<"0">>
        ELSE previousValue = Zero(FALSE)

DivisionByZeroIsZeroWitness ==
    /\ DividedByZero
    /\ last.act = "calculateResult"
    /\ ~IsZero(pre.previousValue)
    /\ currentInput = <<"0">>

\* C4: in every reachable state currentInput is non-empty and matches
\* -?\d+(\.\d*)?, also after repeated calculatePercentage calls.
InputGrammar == Grammar(currentInput)

\* C5: allClear produces exactly the state of a new engine: currentInput
\* "0", previousValue null, operator null, display "0".
AllClearIsInitial ==
    last.act = "allClear" =>
        /\ currentInput = <<"0">>
        /\ previousValue = null
        /\ operator = "null"
        /\ display = <<"0">>

AllClearIsInitialWitness ==
    /\ last.act = "allClear"
    /\ PrePending
    /\ pre.currentInput # <<"0">>
    /\ currentInput = <<"0">>

\* C6: calculatePercentage leaves previousValue and operator unchanged and
\* sets currentInput to the string of its numeric value divided by 100.
PercentageKeepsPending ==
    last.act = "calculatePercentage" =>
        /\ previousValue = pre.previousValue
        /\ operator = pre.operator
        /\ currentInput = toString(Div(parseFloat(pre.currentInput), Hundred))

PercentageKeepsPendingWitness ==
    /\ last.act = "calculatePercentage"
    /\ PrePending
    /\ operator = pre.operator
    /\ pre.currentInput = <<"5", "0">>
    /\ currentInput = <<"0", ".", "5">>

EqualsIsNoOp ==
    last.act = "calculateResult" =>
        /\ ~PrePending => SameAsBefore
        /\ pre.act = "calculateResult" => SameAsBefore

EqualsIsNoOpWitness ==
    /\ last.act = "calculateResult"
    /\ pre.act = "calculateResult"
    /\ pre.currentInput = <<"1", "0">>
    /\ SameAsBefore

\* C9: inputDecimal appends "." when currentInput holds none and otherwise
\* changes nothing, an inputDecimal that follows an inputDecimal changes
\* nothing, and currentInput never holds more than one ".".
DecimalOnce ==
    /\ Points(currentInput) <= 1
    /\ last.act = "inputDecimal" =>
        /\ IF includes(pre.currentInput, ".") THEN SameAsBefore
           ELSE /\ currentInput = Append(pre.currentInput, ".")
                /\ previousValue = pre.previousValue
                /\ operator = pre.operator
        /\ pre.act = "inputDecimal" => SameAsBefore

DecimalOnceWitness ==
    /\ last.act = "inputDecimal"
    /\ pre.act = "inputDecimal"
    /\ currentInput = <<"5", ".">>

\* The digits d1..dn that the keys of t enter: t without its leading zeros,
\* or a single zero.
RECURSIVE Entered(_)
Entered(t) ==
    IF Len(t) > 1 /\ t[1] = "0" THEN Entered(Tail(t)) ELSE t

\* C10: digit keys d1..dn (d1 not 0, or n = 1) pressed from currentInput "0",
\* after any leading zeros, leave currentInput equal to d1..dn and the
\* display showing that same string.
DigitsEntered ==
    typed # <<>> =>
        /\ currentInput = Entered(typed)
        /\ display = Entered(typed)

\* C11: toggleSign never prepends "-" to a currentInput that denotes zero
\* ("0", "0.", "0.0"), so that neither currentInput nor the display shows a
\* negative zero.
ZeroStaysUnsigned ==
    /\ last.act = "toggleSign" /\ IsZero(parseFloat(pre.currentInput)) =>
            currentInput[1] # "-"
    /\ IsZero(parseFloat(currentInput)) => currentInput[1] # "-"
    /\ IsZero(parseFloat(display)) => display[1] # "-"

\* C12: clearEntry sets currentInput to "0" and leaves previousValue and
\* operator as they are; after a, setOperator(op), b, clearEntry, c,
\* calculateResult, currentInput is the string of a op c.
ClearEntryKeepsPending ==
    /\ last.act = "clearEntry" =>
        /\ currentInput = <<"0">>
        /\ previousValue = pre.previousValue
        /\ operator = pre.operator
    /\ Len(chain) = 3 /\ chain[1].key \in Operators /\ last.act = "calculateResult" =>
        currentInput = toString(Compute(chain[1].key, Operand(1), Operand(3)))

ClearEntryKeepsPendingWitness ==
    /\ last.act = "calculateResult"
    /\ Len(chain) = 3
    /\ chain[1] = [operand |-> <<"5">>, key |-> "+"]
    /\ chain[2] = [operand |-> <<"5", "5">>, key |-> "C"]
    /\ chain[3] = [operand |-> <<"5">>, key |-> "="]
    /\ currentInput = <<"1", "0">>

\* C13: the display is a function of currentInput alone: currentInput itself
\* when it holds a ".", its integer re-stringification when it holds none;
\* formatting the displayed string again gives the displayed string.
DisplayFormatting ==
    /\ display = updateDisplay(currentInput)
    /\ includes(currentInput, ".") => display = currentInput
    /\ ~includes(currentInput, ".") => display = toString(parseInt(currentInput))
    /\ updateDisplay(display) = display

\* x and y are the same number, a zero of either sign being zero.
SameNumber(x, y) == x = y \/ (IsZero(x) /\ IsZero(y))

\* C14: after setOperator(op) the operator is op, currentInput and the
\* display are "0", and previousValue is the value of the old currentInput
\* when nothing was pending and (old previousValue, old operator, old
\* currentInput) evaluated when an operation was pending, also when no
\* operand was entered since the previous setOperator.
SetOperatorPostState ==
    last.act = "setOperator" =>
        /\ operator = last.arg
        /\ currentInput = <<"0">>
        /\ display = <<"0">>
        /\ SameNumber(previousValue,
                      IF PrePending
                      THEN Compute(pre.operator, pre.previousValue,
                                   parseFloat(pre.currentInput))
                      ELSE parseFloat(pre.currentInput))

SetOperatorPostStateWitness ==
    /\ last.act = "setOperator"
    /\ pre.act = "setOperator"
    /\ pre.operator = "*"
    /\ ~IsZero(pre.previousValue)
    /\ pre.currentInput = <<"0">>
    /\ last.arg = "+"
    /\ IsZero(previousValue)

\* C15: calculateResult with an operation pending leaves previousValue and
\* operator null and currentInput the string of (previousValue, operator,
\* value of currentInput at the call) evaluated, and the display shows that
\* result: a, setOperator(op), b, calculateResult displays a op b.
EqualsResolves ==
    last.act = "calculateResult" /\ PrePending =>
        /\ previousValue = null
        /\ operator = "null"
        /\ currentInput = toString(Compute(pre.operator, pre.previousValue,
                                           parseFloat(pre.currentInput)))
        /\ SameNumber(parseFloat(display),
                      Compute(pre.operator, pre.previousValue,
                              parseFloat(pre.currentInput)))

\* The methods that edit the operand.
Editing ==
    {"inputDigit", "inputDecimal", "toggleSign", "clearEntry",
     "calculatePercentage"}

\* C16: inputDigit, inputDecimal, toggleSign, clearEntry and
\* calculatePercentage keep previousValue and operator as they are; only
\* setOperator, calculateResult and allClear change them, and only
\* setOperator makes an operation pending.
PendingPersists ==
    /\ last.act \in Editing =>
        /\ previousValue = pre.previousValue
        /\ operator = pre.operator
    /\ previousValue # pre.previousValue \/ operator # pre.operator =>
        last.act \in {"setOperator", "calculateResult", "allClear"}
    /\ ~PrePending /\ pending => last.act = "setOperator"

PendingPersistsWitness ==
    /\ last.act = "calculatePercentage"
    /\ pre.act = "toggleSign"
    /\ PrePending
    /\ pending
    /\ operator = "-"
    /\ ~IsZero(previousValue)

\* C17: inputDigit(d) replaces currentInput by d when currentInput is
\* exactly "0" at the call and appends d otherwise, also directly after
\* calculateResult or calculatePercentage and after "0.".
DigitReplacesOrAppends ==
    last.act = "inputDigit" =>
        currentInput = IF pre.currentInput = <<"0">> THEN <<last.arg>>
                       ELSE Append(pre.currentInput, last.arg)

DigitReplacesOrAppendsWitness ==
    /\ last.act = "inputDigit"
    /\ pre.act = "calculateResult"
    /\ pre.currentInput = <<"1", "0">>
    /\ currentInput = <<"1", "0", "5">>
    /\ display = <<"1", "0", "5">>

\* C18: in every reachable state the display equals currentInput character
\* for character.
DisplayIsInput == display = currentInput

\* toggleSign leaves previousValue and operator as they are and negates the
\* value of a currentInput that does not denote zero.
ToggleNegates ==
    last.act = "toggleSign" =>
        /\ previousValue = pre.previousValue
        /\ operator = pre.operator
        /\ ~IsZero(parseFloat(pre.currentInput)) =>
                parseFloat(currentInput) = Negate(parseFloat(pre.currentInput))

\* A toggleSign that follows a toggleSign restores the currentInput and the
\* display of before the first.
ToggleRestores ==
    last.act = "toggleSign" /\ last'.act = "toggleSign" =>
        /\ currentInput' = pre.currentInput
        /\ display' = pre.display

\* C19: toggleSign called twice in a row restores currentInput and the
\* display exactly, it never changes previousValue or operator, and one call
\* negates the value of a currentInput that does not denote zero.
ToggleIsInvolution == []ToggleNegates /\ [][ToggleRestores]_vars

ToggleIsInvolutionWitness ==
    /\ last.act = "toggleSign"
    /\ pre.act = "toggleSign"
    /\ pre.currentInput = <<"-", "5", ".">>
    /\ currentInput = <<"5", ".">>
    /\ pending

=============================================================================
